---- MODULE Spec2Model ----
(***************************************************************************)
(* A model of the Tetris core of src/src/tetris.rs (shape table, Board,    *)
(* TetrominoQueue, BoardUpdate, Tetris state machine) and of the way       *)
(* src/src/main.rs instantiates it (Tetris<10, 20, RingOscillator>).       *)
(*                                                                         *)
(* Rust vectors are 0-based; the sequences below are 1-based, so index i   *)
(* of the source is index i+1 here.  Vec::pop / Vec::last take the LAST    *)
(* element of the sequence.                                                *)
(***************************************************************************)
EXTENDS Integers, Sequences, FiniteSets, TLC

\* ------------------------------------------------------------------ bounds
\* Width and height of the scaled-down board of the specification Spec
\* (the const generics C and R of Tetris<C, R, Rng>).
BoardC == 5
BoardR == 4
\* Pieces locked per game in Spec.
MaxLocks == 3
\* Random sources of SpecQueue: gen_range(0..=i) answers i or one of the
\* QueueRand lowest values.
QueueRand == 1
\* Capacity N of the BoardUpdate<N> values merged in SpecPure.
MergeCap == 2
\* Calls of input_handler between two passes of the main loop in SpecMain.
MaxInputs == 2
\* Pieces locked per game in SpecGame.
GameLocks == 1
\* Pieces locked per game in SpecMain.
MainLocks == 1

\* ------------------------------------------------------- program constants
TETRIS_WIDTH == 10
TETRIS_HEIGHT == 20
\* Capacity of TetrominoQueue.queue (heapless::Vec<Tetromino, 7>).
QueueCap == 7
\* Capacity N of the BoardUpdate<16> returned by act.
UpdateCap == 16

\* usize::MAX, the value a usize takes when 0 is decremented (wrapping
\* arithmetic, overflow checks off); it is beyond the integers of the checker
\* and is kept as a symbol.
UsizeMax == "usize::MAX"

\* `n -= 1` on a usize.
UsizeDec(n) == IF n = 0 THEN UsizeMax ELSE n - 1

VARIABLES
    C,        \* const generic C: board width
    R,        \* const generic R: board height
    board,    \* Tetris.board.inner : row y -> column x -> Cell
    state,    \* Tetris.state : New | Playing{..} | GameOver{score}
    rng,      \* Tetris.rng : "None" | "Some"
    nlocks,   \* pieces locked since the last start()
    pre,      \* state, board and peeked as they were before the last call
    last,     \* the last call: its name, its argument, its return value
    peeked,   \* what the last peek() since the last draw returned
    tq,       \* a TetrominoQueue on its own (SpecQueue)
    hist,     \* bookkeeping of the draws made from tq (SpecQueue)
    board_updated, \* main.rs State.board_updated: the pending BoardUpdate<16>
    ninputs,  \* calls of input_handler since the last render
    display   \* main's Display buffer: the screen drawn, the board cells on

vars == <<C, R, board, state, rng, nlocks, pre, last, peeked, tq, hist,
          board_updated, ninputs, display>>

\* ------------------------------------------------------------------- types
Tetromino == {"L", "J", "T", "O", "Z", "S", "I"}
Rotation == {"Default", "Left", "Flipped", "Right"}
Cell == {"Occured", "Empty"}
Action == {"MoveLeft", "MoveRight", "SoftDrop", "HardDrop", "Rotate"}

Coordination(px, py) == [x |-> px, y |-> py]

Max2(a, b) == IF a >= b THEN a ELSE b
Min2(a, b) == IF a <= b THEN a ELSE b

\* ------------------------------------------------------------- shape table
ShapeData(piece, rotation) ==
    CASE piece = "O" -> << <<0,0>>, <<1,0>>, <<0,1>>, <<1,1>> >>
      [] piece = "I" /\ rotation \in {"Left", "Right"}
                     -> << <<0,1>>, <<1,1>>, <<2,1>>, <<3,1>> >>
      [] piece = "I" /\ rotation \in {"Default", "Flipped"}
                     -> << <<1,0>>, <<1,1>>, <<1,2>>, <<1,3>> >>
      [] piece = "S" /\ rotation = "Default" -> << <<0,0>>, <<1,0>>, <<1,1>>, <<2,1>> >>
      [] piece = "S" /\ rotation = "Left"    -> << <<2,0>>, <<2,1>>, <<1,1>>, <<1,2>> >>
      [] piece = "S" /\ rotation = "Flipped" -> << <<2,2>>, <<1,2>>, <<1,1>>, <<0,1>> >>
      [] piece = "S" /\ rotation = "Right"   -> << <<0,2>>, <<0,1>>, <<1,1>>, <<1,0>> >>
      [] piece = "Z" /\ rotation = "Default" -> << <<1,0>>, <<2,0>>, <<0,1>>, <<1,1>> >>
      [] piece = "Z" /\ rotation = "Left"    -> << <<2,1>>, <<2,2>>, <<1,0>>, <<1,1>> >>
      [] piece = "Z" /\ rotation = "Flipped" -> << <<1,2>>, <<0,2>>, <<2,1>>, <<1,1>> >>
      [] piece = "Z" /\ rotation = "Right"   -> << <<0,1>>, <<0,0>>, <<1,2>>, <<1,1>> >>
      [] piece = "L" /\ rotation = "Default" -> << <<0,2>>, <<1,2>>, <<1,1>>, <<1,0>> >>
      [] piece = "L" /\ rotation = "Left"    -> << <<0,0>>, <<0,1>>, <<1,1>>, <<2,1>> >>
      [] piece = "L" /\ rotation = "Flipped" -> << <<2,0>>, <<1,0>>, <<1,1>>, <<1,2>> >>
      [] piece = "L" /\ rotation = "Right"   -> << <<2,2>>, <<2,1>>, <<1,1>>, <<0,1>> >>
      [] piece = "T" /\ rotation = "Default" -> << <<1,0>>, <<0,1>>, <<1,1>>, <<2,1>> >>
      [] piece = "T" /\ rotation = "Left"    -> << <<2,1>>, <<1,0>>, <<1,1>>, <<1,2>> >>
      [] piece = "T" /\ rotation = "Flipped" -> << <<1,2>>, <<2,1>>, <<1,1>>, <<0,1>> >>
      [] piece = "T" /\ rotation = "Right"   -> << <<0,1>>, <<1,2>>, <<1,1>>, <<1,0>> >>
      [] piece = "J" /\ rotation = "Default" -> << <<0,0>>, <<1,2>>, <<1,1>>, <<1,0>> >>
      [] piece = "J" /\ rotation = "Left"    -> << <<2,0>>, <<0,1>>, <<1,1>>, <<2,1>> >>
      [] piece = "J" /\ rotation = "Flipped" -> << <<2,2>>, <<1,0>>, <<1,1>>, <<1,2>> >>
      [] piece = "J" /\ rotation = "Right"   -> << <<0,2>>, <<2,1>>, <<1,1>>, <<0,1>> >>

\* Mutant of get_tetromino_blocks: y is read from v.0 as well.
get_tetromino_blocks_SameField(piece, rotation) ==
    LET data == ShapeData(piece, rotation)
    IN  [i \in 1..4 |-> Coordination(data[i][1], data[i][1])]

get_tetromino_blocks(piece, rotation) ==
    LET data == ShapeData(piece, rotation)
    IN  [i \in 1..4 |-> Coordination(data[i][1], data[i][2])]

\* ------------------------------------------------------------------- Board
\* Board::new(): every cell Empty.
BoardNew == [y \in 0..(R - 1) |-> [x \in 0..(C - 1) |-> "Empty"]]

\* The row test of clear_full_lines: inner[line_index].iter().all(== Occured).
LineFull(b, line_index) == \A x \in 0..(C - 1) : b[line_index][x] = "Occured"

\* Mutant of ClearLoop: a full row is counted and copied all the same.
RECURSIVE ClearLoop_KeepFull(_, _, _, _, _)
ClearLoop_KeepFull(b, line_index, new_board, new_board_line_index, removed_count) ==
    IF line_index < 0
    THEN [board |-> new_board, removed |-> removed_count,
          index |-> new_board_line_index]
    ELSE ClearLoop_KeepFull(b, line_index - 1,
                            [new_board EXCEPT ![new_board_line_index] = b[line_index]],
                            UsizeDec(new_board_line_index),
                            IF LineFull(b, line_index)
                            THEN removed_count + 1 ELSE removed_count)

\* Mutant of ClearLoop: only the lowest full row is removed.
RECURSIVE ClearLoop_OnlyFirst(_, _, _, _, _)
ClearLoop_OnlyFirst(b, line_index, new_board, new_board_line_index, removed_count) ==
    IF line_index < 0
    THEN [board |-> new_board, removed |-> removed_count,
          index |-> new_board_line_index]
    ELSE IF LineFull(b, line_index) /\ removed_count = 0
         THEN ClearLoop_OnlyFirst(b, line_index - 1, new_board,
                                  new_board_line_index, removed_count + 1)
         ELSE ClearLoop_OnlyFirst(b, line_index - 1,
                                  [new_board EXCEPT
                                      ![new_board_line_index] = b[line_index]],
                                  UsizeDec(new_board_line_index),
                                  removed_count)

\* The loop of clear_full_lines, `for line_index in (0..R).rev()`, from
\* line_index down to 0.  new_board_line_index is a usize.
RECURSIVE ClearLoop(_, _, _, _, _)
ClearLoop(b, line_index, new_board, new_board_line_index, removed_count) ==
    IF line_index < 0
    THEN [board |-> new_board, removed |-> removed_count,
          index |-> new_board_line_index]
    ELSE IF LineFull(b, line_index)
         THEN ClearLoop(b, line_index - 1, new_board, new_board_line_index,
                        removed_count + 1)
         ELSE ClearLoop(b, line_index - 1,
                        [new_board EXCEPT ![new_board_line_index] = b[line_index]],
                        UsizeDec(new_board_line_index),
                        removed_count)

\* Board::clear_full_lines: the new grid, the count it returns and the final
\* value of new_board_line_index.
clear_full_lines(b) == ClearLoop(b, R - 1, BoardNew, R - 1, 0)

\* The loop of Board::place over blocks[i..4].
RECURSIVE PlaceLoop(_, _, _, _)
PlaceLoop(b, blocks, offset, i) ==
    IF i > 4 THEN b
    ELSE LET x == blocks[i].x + offset.x
             y == blocks[i].y + offset.y
         IN  IF y < 0
             THEN PlaceLoop(b, blocks, offset, i + 1)
             ELSE PlaceLoop([b EXCEPT ![y][x] = "Occured"], blocks, offset, i + 1)

\* Mutant of place: the cells are marked and no row is cleared.
place_NoClear(b, blocks, offset) ==
    [board |-> PlaceLoop(b, blocks, offset, 1), removed |-> 0, index |-> R - 1]

\* Board::place: mark the cells, then clear_full_lines.
place(b, blocks, offset) == clear_full_lines(PlaceLoop(b, blocks, offset, 1))

\* Mutant of BounceLoop: the right wall is taken one column further out.
RECURSIVE BounceLoop_OffByOne(_, _, _, _)
BounceLoop_OffByOne(blocks, offset, i, modifier) ==
    IF i > 4 THEN modifier
    ELSE LET x == blocks[i].x + offset.x
         IN  IF x < 0
             THEN BounceLoop_OffByOne(blocks, offset, i + 1, Max2(modifier, -x))
             ELSE IF x >= C
                  THEN BounceLoop_OffByOne(blocks, offset, i + 1,
                                           Min2(modifier, C - x))
                  ELSE BounceLoop_OffByOne(blocks, offset, i + 1, modifier)

\* The loop of Board::wall_bounce_offset_modifier over blocks[i..4].
RECURSIVE BounceLoop(_, _, _, _)
BounceLoop(blocks, offset, i, modifier) ==
    IF i > 4 THEN modifier
    ELSE LET x == blocks[i].x + offset.x
         IN  IF x < 0
             THEN BounceLoop(blocks, offset, i + 1, Max2(modifier, -x))
             ELSE IF x >= C
                  THEN BounceLoop(blocks, offset, i + 1, Min2(modifier, C - x - 1))
                  ELSE BounceLoop(blocks, offset, i + 1, modifier)

\* Mutant of wall_bounce_offset_modifier: no wall kick.
wall_bounce_offset_modifier_Zero(blocks, offset) == 0

wall_bounce_offset_modifier(blocks, offset) == BounceLoop(blocks, offset, 1, 0)

\* Mutant of CanMoveLoop: the columns are tested before the hidden rows are
\* skipped.
RECURSIVE CanMoveLoop_HiddenColumns(_, _, _, _)
CanMoveLoop_HiddenColumns(b, blocks, offset, i) ==
    IF i > 4 THEN TRUE
    ELSE LET x == blocks[i].x + offset.x
             y == blocks[i].y + offset.y
         IN  IF x < 0 \/ x >= C
             THEN FALSE
             ELSE IF y < 0
                  THEN CanMoveLoop_HiddenColumns(b, blocks, offset, i + 1)
                  ELSE IF y >= R
                       THEN FALSE
                       ELSE IF b[y][x] = "Occured"
                            THEN FALSE
                            ELSE CanMoveLoop_HiddenColumns(b, blocks, offset, i + 1)

\* Board::can_move_in: the first block that fails decides.
RECURSIVE CanMoveLoop(_, _, _, _)
CanMoveLoop(b, blocks, offset, i) ==
    IF i > 4 THEN TRUE
    ELSE LET x == blocks[i].x + offset.x
             y == blocks[i].y + offset.y
         IN  IF y < 0
             THEN CanMoveLoop(b, blocks, offset, i + 1)
             ELSE IF y >= R \/ x < 0 \/ x >= C
                  THEN FALSE
                  ELSE IF b[y][x] = "Occured"
                       THEN FALSE
                       ELSE CanMoveLoop(b, blocks, offset, i + 1)

can_move_in(b, blocks, offset) == CanMoveLoop(b, blocks, offset, 1)

\* ---------------------------------------------------------- TetrominoQueue
\* The slice init() extends the queue with.
QueueSlice == <<"J", "L", "S", "Z", "T", "O", "I">>

\* One shuffle reads an index vector js from the random source: js[i] is its
\* answer when index i (2..7 here, 1..6 in the source) is swapped.

\* Mutant of Swap: the element is copied, not exchanged.
Swap_Copy(v, a, b) == [v EXCEPT ![a] = v[b]]

\* slice::swap(a, b)
Swap(v, a, b) == [v EXCEPT ![a] = v[b], ![b] = v[a]]

\* SliceRandom::shuffle of the rand crate: for i in (1..len).rev(), swap
\* element i with element gen_range(0..=i).
RECURSIVE ShuffleLoop(_, _, _)
ShuffleLoop(v, js, i) ==
    IF i < 2 THEN v ELSE ShuffleLoop(Swap(v, i, js[i]), js, i - 1)

shuffle(v, js) == ShuffleLoop(v, js, Len(v))

\* heapless Vec::extend_from_slice: all or nothing; the error is dropped by
\* `let _ =`.
extend_from_slice(queue, other) ==
    IF Len(queue) + Len(other) > QueueCap THEN queue ELSE queue \o other

\* Mutant of TetrominoQueue_init: a slice that names J twice and L never.
TetrominoQueue_init_Dup(queue, js) ==
    shuffle(extend_from_slice(queue, <<"J", "J", "S", "Z", "T", "O", "I">>), js)

\* TetrominoQueue::init
TetrominoQueue_init(queue, js) == shuffle(extend_from_slice(queue, QueueSlice), js)

\* Mutant of TetrominoQueue_next: last() in place of pop().
TetrominoQueue_next_NoPop(queue, js) ==
    [result |-> queue[Len(queue)], queue |-> queue]

\* TetrominoQueue::next: the kind popped and the queue left behind.
TetrominoQueue_next(queue, js) ==
    LET result == queue[Len(queue)]
        rest == SubSeq(queue, 1, Len(queue) - 1)
    IN  [result |-> result,
         queue |-> IF rest = <<>> THEN TetrominoQueue_init(rest, js) ELSE rest]

\* Mutant of TetrominoQueue_peek: first() in place of last().
TetrominoQueue_peek_First(queue) == queue[1]

\* TetrominoQueue::peek
TetrominoQueue_peek(queue) == queue[Len(queue)]

\* ------------------------------------------------------------- BoardUpdate
UpdateNone == [tag |-> "None"]
UpdateFull == [tag |-> "Full"]
UpdatePartial(list) == [tag |-> "Partial", list |-> list]

\* <[Coordination; 4]>::contains
Contains(blocks, block) == \E i \in 1..4 : blocks[i] = block

\* One loop of get_partial_update: push (block, cell) for each of from[i..4]
\* that other does not contain.
RECURSIVE PushMissing(_, _, _, _, _)
PushMissing(list, from, other, cell, i) ==
    IF i > 4 THEN list
    ELSE PushMissing(IF Contains(other, from[i])
                     THEN list
                     ELSE Append(list, [coord |-> from[i], cell |-> cell]),
                     from, other, cell, i + 1)

\* Mutant of get_partial_update: the two cell values are exchanged.
get_partial_update_Swapped(previous_blocks, current_blocks) ==
    UpdatePartial(
        PushMissing(PushMissing(<<>>, previous_blocks, current_blocks, "Occured", 1),
                    current_blocks, previous_blocks, "Empty", 1))

\* BoardUpdate::get_partial_update
get_partial_update(previous_blocks, current_blocks) ==
    UpdatePartial(
        PushMissing(PushMissing(<<>>, previous_blocks, current_blocks, "Empty", 1),
                    current_blocks, previous_blocks, "Occured", 1))

\* Mutant of FindCoord: no entry is ever found.
FindCoord_Never(self_data, coord) == 0

\* Index of the first entry of self_data at coord, 0 when there is none.
FindCoord(self_data, coord) ==
    IF \E k \in 1..Len(self_data) : self_data[k].coord = coord
    THEN CHOOSE k \in 1..Len(self_data) :
            /\ self_data[k].coord = coord
            /\ \A m \in 1..(k - 1) : self_data[m].coord # coord
    ELSE 0

\* Mutant of MergeLoop: an entry already listed keeps its cell value.
RECURSIVE MergeLoop_KeepFirst(_, _, _, _)
MergeLoop_KeepFirst(self_data, other_data, i, cap) ==
    IF i > Len(other_data)
    THEN [list |-> self_data, require_full_update |-> FALSE]
    ELSE LET block == other_data[i]
             k == FindCoord(self_data, block.coord)
         IN  IF k # 0
             THEN MergeLoop_KeepFirst(self_data, other_data, i + 1, cap)
             ELSE IF Len(self_data) >= cap
                  THEN [list |-> self_data, require_full_update |-> TRUE]
                  ELSE MergeLoop_KeepFirst(Append(self_data, block), other_data,
                                           i + 1, cap)

\* The 'outer loop of merge over other_data[i..]: the list and whether a push
\* failed.
RECURSIVE MergeLoop(_, _, _, _)
MergeLoop(self_data, other_data, i, cap) ==
    IF i > Len(other_data)
    THEN [list |-> self_data, require_full_update |-> FALSE]
    ELSE LET block == other_data[i]
             k == FindCoord(self_data, block.coord)
         IN  IF k # 0
             THEN MergeLoop([self_data EXCEPT ![k].cell = block.cell],
                            other_data, i + 1, cap)
             ELSE IF Len(self_data) >= cap
                  THEN [list |-> self_data, require_full_update |-> TRUE]
                  ELSE MergeLoop(Append(self_data, block), other_data, i + 1, cap)

\* Mutant of merge: a Full merged into a Partial is ignored.
merge_IgnoreFull(self, other, cap) ==
    CASE self.tag = "None" -> other
      [] self.tag = "Full" -> self
      [] self.tag = "Partial" ->
            CASE other.tag = "None" -> self
              [] other.tag = "Full" -> self
              [] other.tag = "Partial" ->
                    LET m == MergeLoop(self.list, other.list, 1, cap)
                    IN  IF m.require_full_update
                        THEN UpdateFull
                        ELSE UpdatePartial(m.list)

\* BoardUpdate::merge: the value of self afterwards.
merge(self, other, cap) ==
    CASE self.tag = "None" -> other
      [] self.tag = "Full" -> self
      [] self.tag = "Partial" ->
            CASE other.tag = "None" -> self
              [] other.tag = "Full" -> UpdateFull
              [] other.tag = "Partial" ->
                    LET m == MergeLoop(self.list, other.list, 1, cap)
                    IN  IF m.require_full_update
                        THEN UpdateFull
                        ELSE UpdatePartial(m.list)

\* ------------------------------------------------------------------ Tetris
StateNew == [tag |-> "New"]
StateGameOver(score) == [tag |-> "GameOver", score |-> score]
StatePlaying(piece, rotation, offset, queue, score) ==
    [tag |-> "Playing", piece |-> piece, rotation |-> rotation,
     offset |-> offset, queue |-> queue, score |-> score]

is_playing(st) == st.tag = "Playing"

\* Tetris::get_current_tetromino_position
get_current_tetromino_position(st) ==
    IF is_playing(st)
    THEN LET blocks == get_tetromino_blocks(st.piece, st.rotation)
         IN  [i \in 1..4 |-> Coordination(blocks[i].x + st.offset.x,
                                          blocks[i].y + st.offset.y)]
    ELSE [i \in 1..4 |-> Coordination(0, 0)]

\* Mutant of spawn_new_piece: the rotation is not reset.
spawn_new_piece_KeepRotation(st, b, js) ==
    IF is_playing(st)
    THEN LET rotation == st.rotation
             offset == Coordination(C \div 2, 0)
             nx == TetrominoQueue_next(st.queue, js)
             piece == nx.result
         IN  IF ~can_move_in(b, get_tetromino_blocks(piece, rotation), offset)
             THEN StateGameOver(st.score)
             ELSE StatePlaying(piece, rotation, offset, nx.queue, st.score)
    ELSE st

\* Mutant of spawn_new_piece: GameOver does not carry the score.
spawn_new_piece_DropScore(st, b, js) ==
    IF is_playing(st)
    THEN LET rotation == "Default"
             offset == Coordination(C \div 2, 0)
             nx == TetrominoQueue_next(st.queue, js)
             piece == nx.result
         IN  IF ~can_move_in(b, get_tetromino_blocks(piece, rotation), offset)
             THEN StateGameOver(0)
             ELSE StatePlaying(piece, rotation, offset, nx.queue, st.score)
    ELSE st

\* Mutant of spawn_new_piece: a failed spawn resets to New.
spawn_new_piece_ToNew(st, b, js) ==
    IF is_playing(st)
    THEN LET rotation == "Default"
             offset == Coordination(C \div 2, 0)
             nx == TetrominoQueue_next(st.queue, js)
             piece == nx.result
         IN  IF ~can_move_in(b, get_tetromino_blocks(piece, rotation), offset)
             THEN StateNew
             ELSE StatePlaying(piece, rotation, offset, nx.queue, st.score)
    ELSE st

\* Mutant of spawn_new_piece: a failed spawn leaves the state as it is.
spawn_new_piece_Stuck(st, b, js) ==
    IF is_playing(st)
    THEN LET rotation == "Default"
             offset == Coordination(C \div 2, 0)
             nx == TetrominoQueue_next(st.queue, js)
             piece == nx.result
         IN  IF ~can_move_in(b, get_tetromino_blocks(piece, rotation), offset)
             THEN st
             ELSE StatePlaying(piece, rotation, offset, nx.queue, st.score)
    ELSE st

\* Tetris::spawn_new_piece: the state afterwards (the board is only read).
spawn_new_piece(st, b, js) ==
    IF is_playing(st)
    THEN LET rotation == "Default"
             offset == Coordination(C \div 2, 0)
             nx == TetrominoQueue_next(st.queue, js)
             piece == nx.result
         IN  IF ~can_move_in(b, get_tetromino_blocks(piece, rotation), offset)
             THEN StateGameOver(st.score)
             ELSE StatePlaying(piece, rotation, offset, nx.queue, st.score)
    ELSE st

\* Rotation successor of act(Rotate).
NextRotation(rotation) ==
    CASE rotation = "Default" -> "Left"
      [] rotation = "Left" -> "Flipped"
      [] rotation = "Flipped" -> "Right"
      [] rotation = "Right" -> "Default"

\* The tail of act: `if updated && board_update == None { merge(..) }`.
ActTail(previous_blocks, st, b, board_update, updated) ==
    [state |-> st, board |-> b,
     ret |-> IF updated /\ board_update = UpdateNone
             THEN merge(board_update,
                        get_partial_update(previous_blocks,
                                           get_current_tetromino_position(st)),
                        UpdateCap)
             ELSE board_update]

\* Mutant of ActMoveLeft: a blocked move reports an (empty) diff.
ActMoveLeft_AlwaysReports(st, b) ==
    LET previous_blocks == get_current_tetromino_position(st)
        blocks == get_tetromino_blocks(st.piece, st.rotation)
        new_offset == [st.offset EXCEPT !.x = @ - 1]
        moved == IF can_move_in(b, blocks, new_offset)
                 THEN [st EXCEPT !.offset.x = @ - 1]
                 ELSE st
    IN  ActTail(previous_blocks, moved, b,
                get_partial_update(previous_blocks,
                                   get_current_tetromino_position(moved)),
                FALSE)

\* act, Action::MoveLeft
ActMoveLeft(st, b) ==
    LET previous_blocks == get_current_tetromino_position(st)
        blocks == get_tetromino_blocks(st.piece, st.rotation)
        new_offset == [st.offset EXCEPT !.x = @ - 1]
    IN  IF can_move_in(b, blocks, new_offset)
        THEN LET moved == [st EXCEPT !.offset.x = @ - 1]
             IN  ActTail(previous_blocks, moved, b,
                         get_partial_update(previous_blocks,
                                            get_current_tetromino_position(moved)),
                         FALSE)
        ELSE ActTail(previous_blocks, st, b, UpdateNone, FALSE)

\* Mutant of ActMoveRight: the move is made without the collision check.
ActMoveRight_Unchecked(st, b) ==
    ActTail(get_current_tetromino_position(st), [st EXCEPT !.offset.x = @ + 1], b,
            UpdateNone, TRUE)

\* act, Action::MoveRight
ActMoveRight(st, b) ==
    LET previous_blocks == get_current_tetromino_position(st)
        blocks == get_tetromino_blocks(st.piece, st.rotation)
        new_offset == [st.offset EXCEPT !.x = @ + 1]
    IN  IF can_move_in(b, blocks, new_offset)
        THEN ActTail(previous_blocks, [st EXCEPT !.offset.x = @ + 1], b,
                     UpdateNone, TRUE)
        ELSE ActTail(previous_blocks, st, b, UpdateNone, FALSE)

\* Mutant of LockPiece: the cleared lines are not added to the score.
LockPiece_NoScore(st, b, js) ==
    LET blocks == get_tetromino_blocks(st.piece, st.rotation)
        placed == place(b, blocks, st.offset)
    IN  [state |-> spawn_new_piece(st, placed.board, js),
         board |-> placed.board,
         ret |-> UpdateFull]

\* Mutant of LockPiece: the cells are marked and full rows are left in place.
LockPiece_NoClear(st, b, js) ==
    LET blocks == get_tetromino_blocks(st.piece, st.rotation)
        marked == PlaceLoop(b, blocks, st.offset, 1)
    IN  [state |-> spawn_new_piece(st, marked, js),
         board |-> marked,
         ret |-> UpdateFull]

\* The landing of act(SoftDrop): place, score, spawn_new_piece, return Full.
LockPiece(st, b, js) ==
    LET blocks == get_tetromino_blocks(st.piece, st.rotation)
        placed == place(b, blocks, st.offset)
        cleared_lines == placed.removed
        scored == IF cleared_lines > 0
                  THEN [st EXCEPT !.score = @ + cleared_lines]
                  ELSE st
    IN  [state |-> spawn_new_piece(scored, placed.board, js),
         board |-> placed.board,
         ret |-> UpdateFull]

\* Mutant of ActSoftDrop: a piece that cannot go down is left where it is.
ActSoftDrop_NoLock(st, b, js) ==
    LET previous_blocks == get_current_tetromino_position(st)
        blocks == get_tetromino_blocks(st.piece, st.rotation)
        new_offset == [st.offset EXCEPT !.y = @ + 1]
    IN  IF can_move_in(b, blocks, new_offset)
        THEN ActTail(previous_blocks, [st EXCEPT !.offset.y = @ + 1], b,
                     UpdateNone, TRUE)
        ELSE ActTail(previous_blocks, st, b, UpdateNone, FALSE)

\* act, Action::SoftDrop
ActSoftDrop(st, b, js) ==
    LET previous_blocks == get_current_tetromino_position(st)
        blocks == get_tetromino_blocks(st.piece, st.rotation)
        new_offset == [st.offset EXCEPT !.y = @ + 1]
    IN  IF can_move_in(b, blocks, new_offset)
        THEN ActTail(previous_blocks, [st EXCEPT !.offset.y = @ + 1], b,
                     UpdateNone, TRUE)
        ELSE LockPiece(st, b, js)

\* Mutant of HardDropLoop: an `if` in place of the `while`.
HardDropLoop_OneStep(b, blocks, new_offset) ==
    IF can_move_in(b, blocks, new_offset)
    THEN [new_offset EXCEPT !.y = @ + 1]
    ELSE new_offset

\* The while loop of act(HardDrop): the first offset that cannot be moved in.
RECURSIVE HardDropLoop(_, _, _)
HardDropLoop(b, blocks, new_offset) ==
    IF can_move_in(b, blocks, new_offset)
    THEN HardDropLoop(b, blocks, [new_offset EXCEPT !.y = @ + 1])
    ELSE new_offset

\* act, Action::HardDrop
ActHardDrop(st, b, js) ==
    LET blocks == get_tetromino_blocks(st.piece, st.rotation)
        new_offset == HardDropLoop(b, blocks, [st.offset EXCEPT !.y = @ + 1])
    IN  ActSoftDrop([st EXCEPT !.offset = [new_offset EXCEPT !.y = @ - 1]], b, js)

\* act, Action::Rotate
ActRotate(st, b) ==
    LET previous_blocks == get_current_tetromino_position(st)
        new_rotation == NextRotation(st.rotation)
        blocks == get_tetromino_blocks(st.piece, new_rotation)
        new_offset == [st.offset EXCEPT
                          !.x = @ + wall_bounce_offset_modifier(blocks, st.offset)]
    IN  IF can_move_in(b, blocks, new_offset)
        THEN ActTail(previous_blocks,
                     [st EXCEPT !.rotation = new_rotation, !.offset = new_offset],
                     b, UpdateNone, TRUE)
        ELSE ActTail(previous_blocks, st, b, UpdateNone, FALSE)

\* Mutant of act: a call made while not Playing reports a Full change.
act_FullWhenIdle(st, b, action, js) ==
    IF ~is_playing(st)
    THEN [state |-> st, board |-> b, ret |-> UpdateFull]
    ELSE CASE action = "MoveLeft" -> ActMoveLeft(st, b)
           [] action = "MoveRight" -> ActMoveRight(st, b)
           [] action = "SoftDrop" -> ActSoftDrop(st, b, js)
           [] action = "HardDrop" -> ActHardDrop(st, b, js)
           [] action = "Rotate" -> ActRotate(st, b)

\* Tetris::act: the state, the board and the BoardUpdate returned.
act(st, b, action, js) ==
    IF ~is_playing(st)
    THEN [state |-> st, board |-> b, ret |-> UpdateNone]
    ELSE CASE action = "MoveLeft" -> ActMoveLeft(st, b)
           [] action = "MoveRight" -> ActMoveRight(st, b)
           [] action = "SoftDrop" -> ActSoftDrop(st, b, js)
           [] action = "HardDrop" -> ActHardDrop(st, b, js)
           [] action = "Rotate" -> ActRotate(st, b)

\* Mutant of start: the board is not reset.
start_KeepBoard(st, b, r, js1, js2) ==
    IF is_playing(st) \/ r = "None"
    THEN [state |-> st, board |-> b]
    ELSE LET queue == TetrominoQueue_init(<<>>, js1)
             fresh == StatePlaying("J", "Default", Coordination(5, 0), queue, 0)
         IN  [state |-> spawn_new_piece(fresh, b, js2), board |-> b]

\* Tetris::start: the state and the board afterwards.  js1 shuffles the
\* fresh queue, js2 is for the refill inside the first next().
start(st, b, r, js1, js2) ==
    IF is_playing(st) \/ r = "None"
    THEN [state |-> st, board |-> b]
    ELSE LET queue == TetrominoQueue_init(<<>>, js1)
             fresh == StatePlaying("J", "Default", Coordination(5, 0), queue, 0)
         IN  [state |-> spawn_new_piece(fresh, BoardNew, js2), board |-> BoardNew]

\* ------------------------------------------------------------ random input
\* What the random source answers during one shuffle, in the game
\* specifications: always the top of the range (no swap: the kinds come out
\* as I O T Z S L J) or always the bottom (J I O T Z S L).
GameVectors == {[i \in 2..QueueCap |-> i], [i \in 2..QueueCap |-> 1]}

\* In SpecDrop the first shuffle can also exchange the last two kinds only,
\* which makes O the first piece (O I T Z S L J).
DropVectors ==
    GameVectors \cup
        {[i \in 2..QueueCap |-> IF i = QueueCap THEN QueueCap - 1 ELSE i]}

\* In SpecQueue: at every index, the top of the range or a value up to
\* QueueRand.
QueueChoice(i) == {i} \cup 1..Min2(QueueRand, i)

QueueVectors ==
    {[i \in 2..QueueCap |-> t[i - 1]] :
        t \in QueueChoice(2) \X QueueChoice(3) \X QueueChoice(4) \X
              QueueChoice(5) \X QueueChoice(6) \X QueueChoice(7)}

\* The random source is consulted by next() only when it refills, that is
\* when it pops the last kind of the queue; otherwise its answers are not
\* read and one vector stands for all.
Consulted(queue, vectors) ==
    IF Len(queue) = 1 THEN vectors ELSE {[i \in 2..QueueCap |-> i]}

\* ----------------------------------------------------------------- display
\* The frame buffer of main's Display, as far as the board goes: which screen
\* was drawn last and the set of board cells <<x, y>> that are on.
\* Display::init: an empty buffer.
DisplayInit == [screen |-> "-", on |-> {}]

\* BoardIter: the coordinates of the Occured cells in the order next()
\* yields them, row by row, from cell number n on (x = n % C, y = n / C).
RECURSIVE BoardIterFrom(_, _)
BoardIterFrom(b, n) ==
    IF n >= C * R THEN <<>>
    ELSE (IF b[n \div C][n % C] = "Occured"
          THEN <<Coordination(n % C, n \div C)>>
          ELSE <<>>) \o BoardIterFrom(b, n + 1)

\* Board::iter
BoardIter(b) == BoardIterFrom(b, 0)

\* Mutant of draw_piece: the block is filled On whatever `on` says.
draw_piece_AlwaysOn(on_cells, dx, dy, on) == on_cells \cup {<<dx, dy>>}

\* Display::draw_piece(dx, dy, on): the block of one cell filled On or Off.
draw_piece(on_cells, dx, dy, on) ==
    IF on THEN on_cells \cup {<<dx, dy>>} ELSE on_cells \ {<<dx, dy>>}

\* The Partial arm of the match in main: draw_piece for data[i..] in order.
RECURSIVE DrawPartial(_, _, _)
DrawPartial(on_cells, data, i) ==
    IF i > Len(data) THEN on_cells
    ELSE DrawPartial(draw_piece(on_cells, data[i].coord.x, data[i].coord.y,
                                data[i].cell = "Occured"),
                     data, i + 1)

\* `for pixel in .. { display.draw_piece(pixel.x, pixel.y, true) }` over
\* pixels[i..n].
RECURSIVE DrawOn(_, _, _, _)
DrawOn(on_cells, pixels, i, n) ==
    IF i > n THEN on_cells
    ELSE DrawOn(draw_piece(on_cells, pixels[i].x, pixels[i].y, TRUE), pixels, i + 1, n)

\* The Full arm, game Playing: draw_board clears the buffer, then the Occured
\* cells and the blocks of the current piece are drawn on.
DrawPlaying(st, b) ==
    DrawOn(DrawOn({}, BoardIter(b), 1, Len(BoardIter(b))),
           get_current_tetromino_position(st), 1, 4)

\* What the main loop draws for the update it took: nothing for None, the
\* listed cells for Partial, the whole screen for Full (draw_start_screen
\* draws over the buffer, draw_game_over and draw_board clear it).
Draw(d, taken, st, b) ==
    CASE taken.tag = "None" -> d
      [] taken.tag = "Partial" -> [d EXCEPT !.on = DrawPartial(@, taken.list, 1)]
      [] taken.tag = "Full" ->
            CASE st.tag = "New" -> [d EXCEPT !.screen = "start"]
              [] st.tag = "GameOver" -> [screen |-> "game over", on |-> {}]
              [] st.tag = "Playing" -> [screen |-> "board", on |-> DrawPlaying(st, b)]

\* ------------------------------------------------------------- bookkeeping
Snap == [state |-> state, board |-> board, peeked |-> peeked,
         board_updated |-> board_updated, display |-> display]

Call(op, action, ret) == [op |-> op, action |-> action, ret |-> ret]

\* Draw bookkeeping of SpecQueue.  pos: draws made in the current block of 7
\* counted from the init; count: draws of each kind in that block; second:
\* a block was completed before this one; since: draws made after the last
\* draw of the watched kind (-1: not drawn yet); between: when the last draw
\* repeated the watched kind, the number of draws between the two (else -1);
\* drawn: the kind the last next() returned.
HistStart(watch) ==
    [pos |-> 0, count |-> [k \in Tetromino |-> 0], second |-> FALSE,
     watch |-> watch, since |-> -1, between |-> -1, drawn |-> "-"]

HistDraw(h, kind) ==
    [pos |-> IF h.pos = QueueCap THEN 1 ELSE h.pos + 1,
     count |-> IF h.pos = QueueCap
               THEN [k \in Tetromino |-> IF k = kind THEN 1 ELSE 0]
               ELSE [h.count EXCEPT ![kind] = @ + 1],
     second |-> h.second \/ h.pos = QueueCap,
     watch |-> h.watch,
     since |-> IF kind = h.watch THEN 0
               ELSE IF h.since = -1 THEN -1 ELSE h.since + 1,
     between |-> IF kind = h.watch THEN h.since ELSE -1,
     drawn |-> kind]

\* ----------------------------------------------------------------- actions
\* Tetris::new() on a C x R board.
InitGame(c, r) ==
    /\ C = c
    /\ R = r
    /\ board = BoardNew
    /\ state = StateNew
    /\ rng = "None"
    /\ nlocks = 0
    /\ pre = [state |-> StateNew, board |-> BoardNew, peeked |-> "-",
              board_updated |-> UpdateFull, display |-> DisplayInit]
    /\ last = Call("new", "-", UpdateNone)
    /\ peeked = "-"
    /\ tq = <<>>
    /\ hist = HistStart("I")
    /\ board_updated = UpdateFull
    /\ ninputs = 0
    /\ display = DisplayInit

\* Tetris::set_rng, called once by main before the loop.
SetRng ==
    /\ rng = "None"
    /\ rng' = "Some"
    /\ pre' = Snap
    /\ last' = Call("set_rng", "-", UpdateNone)
    /\ UNCHANGED <<C, R, board, state, nlocks, peeked, tq, hist, board_updated, ninputs, display>>

\* Tetris::start, the shuffle of the fresh queue answered from vectors.
StartWith(vectors) ==
    \E r \in {start(state, board, rng, js1, js2) :
                 js1 \in vectors, js2 \in Consulted(<<>>, GameVectors)} :
        LET started == ~is_playing(state) /\ rng # "None"
        IN  /\ state' = r.state
            /\ board' = r.board
            /\ nlocks' = IF started THEN 0 ELSE nlocks
            /\ peeked' = IF started THEN "-" ELSE peeked
            /\ pre' = Snap
            /\ last' = Call("start", "-", UpdateNone)
            /\ UNCHANGED <<C, R, rng, tq, hist, board_updated, ninputs, display>>

Start == StartWith(GameVectors)

\* Tetris::act(action).  Only a landing returns Full.
ActCall(action) ==
    \E r \in {act(state, board, action, js) :
                 js \in Consulted(IF is_playing(state) THEN state.queue ELSE <<>>,
                                  GameVectors)} :
        LET locked == r.ret = UpdateFull
        IN  /\ state' = r.state
            /\ board' = r.board
            /\ nlocks' = IF locked THEN nlocks + 1 ELSE nlocks
            /\ peeked' = IF locked THEN "-" ELSE peeked
            /\ pre' = Snap
            /\ last' = Call("act", action, r.ret)
            /\ UNCHANGED <<C, R, rng, tq, hist, board_updated, ninputs, display>>

\* TetrominoQueue::peek on the queue of the Playing state (main's render).
Peek ==
    /\ is_playing(state)
    /\ peeked' = TetrominoQueue_peek(state.queue)
    /\ pre' = Snap
    /\ last' = Call("peek", "-", UpdateNone)
    /\ UNCHANGED <<C, R, board, state, rng, nlocks, tq, hist, board_updated, ninputs, display>>

\* Spec stops a game after MaxLocks landings.
LocksLeft == is_playing(state) => nlocks < MaxLocks

MoveLeft == LocksLeft /\ ActCall("MoveLeft")
MoveRight == LocksLeft /\ ActCall("MoveRight")
SoftDrop == LocksLeft /\ ActCall("SoftDrop")
HardDrop == LocksLeft /\ ActCall("HardDrop")
Rotate == LocksLeft /\ ActCall("Rotate")

Init == InitGame(BoardC, BoardR)

Next == SetRng \/ Start \/ MoveLeft \/ MoveRight \/ SoftDrop \/ HardDrop \/ Rotate

\* The whole state machine on the scaled-down board.
Spec == Init /\ [][Next]_vars

\* The 10 x 20 game of main.rs under drops only: every piece lands in the
\* spawn columns, so every game ends.
DropSoftDrop == ActCall("SoftDrop")
DropHardDrop == ActCall("HardDrop")

InitDrop == InitGame(TETRIS_WIDTH, TETRIS_HEIGHT)

DropStart == StartWith(DropVectors)

NextDrop == SetRng \/ DropStart \/ DropSoftDrop \/ DropHardDrop \/ Peek

SpecDrop == InitDrop /\ [][NextDrop]_vars

\* The 10 x 20 game of main.rs under all five actions, GameLocks landings
\* per game.
GameLocksLeft == is_playing(state) => nlocks < GameLocks

GameMoveLeft == GameLocksLeft /\ ActCall("MoveLeft")
GameMoveRight == GameLocksLeft /\ ActCall("MoveRight")
GameSoftDrop == GameLocksLeft /\ ActCall("SoftDrop")
GameHardDrop == GameLocksLeft /\ ActCall("HardDrop")
GameRotate == GameLocksLeft /\ ActCall("Rotate")

\* In SpecGame the random source answers the top of the range throughout
\* the first shuffle: the kinds come out as I O T Z S L J.
GameStart == StartWith({[i \in 2..QueueCap |-> i]})

NextGame ==
    \/ SetRng \/ GameStart \/ GameMoveLeft \/ GameMoveRight \/ GameSoftDrop
    \/ GameHardDrop \/ GameRotate

SpecGame == InitDrop /\ [][NextGame]_vars

\* The 10 x 20 game of main.rs when no input arrives: the main loop issues
\* act(SoftDrop) while the game is Playing, each time the drop time has
\* passed, and never stops doing so.
GravityTick == is_playing(state) /\ ActCall("SoftDrop")

NextGravity == SetRng \/ DropStart \/ GravityTick

\* Weak fairness of GravityTick, written without ENABLED: the tick can be
\* taken exactly when the game is Playing (it moves the piece or locks it),
\* so either the game is again and again not Playing or the tick is taken
\* again and again.
GravityFair == []<>(~is_playing(state)) \/ []<><<GravityTick>>_vars

SpecGravity == InitDrop /\ [][NextGravity]_vars /\ GravityFair

\* A TetrominoQueue on its own: TetrominoQueue::new() + init(rng) as start()
\* does, then next(rng).
QueueInit ==
    /\ tq = <<>>
    /\ \E js \in QueueVectors : tq' = TetrominoQueue_init(<<>>, js)
    /\ hist' = HistStart(hist.watch)
    /\ UNCHANGED <<C, R, board, state, rng, nlocks, pre, last, peeked,
                   board_updated, ninputs, display>>

QueueNext ==
    /\ tq # <<>>
    /\ \E js \in Consulted(tq, QueueVectors) :
          LET nx == TetrominoQueue_next(tq, js)
          IN  /\ tq' = nx.queue
              /\ hist' = HistDraw(hist, nx.result)
    /\ UNCHANGED <<C, R, board, state, rng, nlocks, pre, last, peeked,
                   board_updated, ninputs, display>>

InitQueue ==
    /\ C = TETRIS_WIDTH
    /\ R = TETRIS_HEIGHT
    /\ board = BoardNew
    /\ state = StateNew
    /\ rng = "Some"
    /\ nlocks = 0
    /\ pre = [state |-> StateNew, board |-> BoardNew, peeked |-> "-",
              board_updated |-> UpdateFull, display |-> DisplayInit]
    /\ last = Call("new", "-", UpdateNone)
    /\ peeked = "-"
    /\ tq = <<>>
    /\ \E watch \in Tetromino : hist = HistStart(watch)
    /\ board_updated = UpdateFull
    /\ ninputs = 0
    /\ display = DisplayInit

NextQueue == QueueInit \/ QueueNext

SpecQueue == InitQueue /\ [][NextQueue]_vars

\* The functions of tetris.rs called on their own, one call per behaviour,
\* on arguments drawn from small sets.
\* The BoardUpdate<MergeCap> values over three coordinates: None, Full, and
\* every Partial of at most MergeCap entries with pairwise different
\* coordinates.
MergeCoords == {Coordination(0, 0), Coordination(1, 0), Coordination(0, 1)}

MergeEntries == [coord : MergeCoords, cell : Cell]

MergeLists ==
    UNION {{l \in [1..n -> MergeEntries] :
               \A i, j \in 1..n : i # j => l[i].coord # l[j].coord} :
           n \in 0..MergeCap}

MergeUpdates == {UpdateNone, UpdateFull} \cup {UpdatePartial(l) : l \in MergeLists}

\* a.merge(b)
PureMerge ==
    /\ last.op = "new"
    /\ \E a, b \in MergeUpdates :
          last' = Call("merge", <<a, b>>, merge(a, b, MergeCap))
    /\ UNCHANGED <<C, R, board, state, rng, nlocks, pre, peeked, tq, hist,
                   board_updated, ninputs, display>>

\* a.merge(b); a.merge(c) next to b.merge(c); a.merge(b).
PureMergeTwice ==
    /\ last.op = "new"
    /\ \E a, b, c \in MergeUpdates :
          last' = Call("merge twice", <<a, b, c>>,
                       <<merge(merge(a, b, MergeCap), c, MergeCap),
                         merge(a, merge(b, c, MergeCap), MergeCap)>>)
    /\ UNCHANGED <<C, R, board, state, rng, nlocks, pre, peeked, tq, hist,
                   board_updated, ninputs, display>>

\* get_tetromino_blocks(piece, rotation)
PureBlocks ==
    /\ last.op = "new"
    /\ \E piece \in Tetromino, rotation \in Rotation :
          last' = Call("get_tetromino_blocks", <<piece, rotation>>,
                       get_tetromino_blocks(piece, rotation))
    /\ UNCHANGED <<C, R, board, state, rng, nlocks, pre, peeked, tq, hist,
                   board_updated, ninputs, display>>

InitPure == InitGame(BoardC, BoardR)

NextPure == PureMerge \/ PureMergeTwice \/ PureBlocks

SpecPure == InitPure /\ [][NextPure]_vars

\* The functions of Board called on their own, one call per behaviour, on
\* boards of width 4 to BoardC and height BoardR.
\* The rows the boards given to clear_full_lines and place are made of: all
\* Empty, all Occured, Occured in column 0 only, Empty in column 0 only.
RowEmpty == [x \in 0..(C - 1) |-> "Empty"]
RowFull == [x \in 0..(C - 1) |-> "Occured"]
RowLeft == [x \in 0..(C - 1) |-> IF x = 0 THEN "Occured" ELSE "Empty"]
RowGap == [x \in 0..(C - 1) |-> IF x = 0 THEN "Empty" ELSE "Occured"]

ClearBoards == [0..(R - 1) -> {RowEmpty, RowFull, RowLeft, RowGap}]

PlaceBoards == [0..(R - 1) -> {RowEmpty, RowLeft, RowGap}]

\* The boards given to can_move_in: no cell Occured, or one, or all.
ProbeBoards ==
    {BoardNew, [y \in 0..(R - 1) |-> RowFull]}
        \cup {[BoardNew EXCEPT ![y][x] = "Occured"] :
                 x \in 0..(C - 1), y \in 0..(R - 1)}

\* Offsets that put a shape on, across and beyond every edge of the board.
ProbeOffsets == {Coordination(x, y) : x \in (-4)..C, y \in (-4)..R}

\* Offsets for wall_bounce_offset_modifier, which reads offset.x only.
BounceOffsets == {Coordination(x, 0) : x \in (-6)..(C + 5)}

\* self.can_move_in(blocks, offset)
PureCanMoveIn ==
    /\ last.op = "new"
    /\ \E b \in ProbeBoards, piece \in Tetromino, rotation \in Rotation,
          offset \in ProbeOffsets :
          last' = Call("can_move_in", <<b, piece, rotation, offset>>,
                       can_move_in(b, get_tetromino_blocks(piece, rotation), offset))
    /\ UNCHANGED <<C, R, board, state, rng, nlocks, pre, peeked, tq, hist,
                   board_updated, ninputs, display>>

\* self.wall_bounce_offset_modifier(blocks, offset)
PureWallBounce ==
    /\ last.op = "new"
    /\ \E piece \in Tetromino, rotation \in Rotation, offset \in BounceOffsets :
          last' = Call("wall_bounce_offset_modifier", <<piece, rotation, offset>>,
                       wall_bounce_offset_modifier(
                           get_tetromino_blocks(piece, rotation), offset))
    /\ UNCHANGED <<C, R, board, state, rng, nlocks, pre, peeked, tq, hist,
                   board_updated, ninputs, display>>

\* self.clear_full_lines()
PureClear ==
    /\ last.op = "new"
    /\ \E b \in ClearBoards :
          last' = Call("clear_full_lines", <<b>>, clear_full_lines(b))
    /\ UNCHANGED <<C, R, board, state, rng, nlocks, pre, peeked, tq, hist,
                   board_updated, ninputs, display>>

\* What a second call does after a first: the two results.
ClearedTwice(first) == <<first, clear_full_lines(first.board)>>

\* self.clear_full_lines(); self.clear_full_lines()
PureClearTwice ==
    /\ last.op = "new"
    /\ \E b \in ClearBoards :
          last' = Call("clear_full_lines twice", <<b>>,
                       ClearedTwice(clear_full_lines(b)))
    /\ UNCHANGED <<C, R, board, state, rng, nlocks, pre, peeked, tq, hist,
                   board_updated, ninputs, display>>

\* self.place(blocks, offset) of a piece that lies on the board, on Empty
\* cells.
PurePlace ==
    /\ last.op = "new"
    /\ \E b \in PlaceBoards, piece \in Tetromino, rotation \in Rotation,
          offset \in ProbeOffsets :
          /\ offset.y >= 0
          /\ can_move_in(b, get_tetromino_blocks(piece, rotation), offset)
          /\ last' = Call("place", <<b, piece, rotation, offset>>,
                          place(b, get_tetromino_blocks(piece, rotation), offset))
    /\ UNCHANGED <<C, R, board, state, rng, nlocks, pre, peeked, tq, hist,
                   board_updated, ninputs, display>>

InitBoard == \E c \in 4..BoardC : InitGame(c, BoardR)

NextBoard ==
    PureCanMoveIn \/ PureWallBounce \/ PureClear \/ PureClearTwice \/ PurePlace

SpecBoard == InitBoard /\ [][NextBoard]_vars

\* ------------------------------------------------------------------ main.rs
\* The critical section of input_handler for an input that maps to an
\* action: what it leaves in State.game and State.board_updated, the value
\* act() returned (None when act was not called) and which of start and act
\* it called.  js1, js2 answer the shuffles of start(), js the one of act().

\* The else branch: a is what act() left and returned.
Merging(pending, a) ==
    [state |-> a.state, board |-> a.board,
     board_updated |-> merge(pending, a.ret, UpdateCap),
     ret |-> a.ret, called |-> "act"]

\* The then branch: s is what start() left.
Starting(s) ==
    [state |-> s.state, board |-> s.board, board_updated |-> UpdateFull,
     ret |-> UpdateNone, called |-> "start"]

\* Mutant of input_handler: every action goes to act().
input_handler_NoStart(st, b, r, pending, action, js1, js2, js) ==
    Merging(pending, act(st, b, action, js))

input_handler(st, b, r, pending, action, js1, js2, js) ==
    IF ~is_playing(st) /\ action = "HardDrop"
    THEN Starting(start(st, b, r, js1, js2))
    ELSE Merging(pending, act(st, b, action, js))

\* Mutant of mem_take: the value is copied and left in place.
mem_take_Copy(update) == [taken |-> update, left |-> update]

\* mem::take(&mut state.board_updated): the value taken and the value left,
\* BoardUpdate::default(), which is None.
mem_take(update) == [taken |-> update, left |-> UpdateNone]

\* The end of the critical section of the main loop: a is what the gravity
\* tick left and returned, t what mem::take took and left; the drawing
\* changes nothing of the game.
Drawing(a, t, ticked) ==
    [state |-> a.state, board |-> a.board, board_updated |-> t.left,
     ret |-> a.ret, taken |-> t.taken,
     called |-> IF ticked THEN "act" ELSE "-"]

\* The gravity tick merged into the pending update, then mem::take.
Ticking(pending, a) == Drawing(a, mem_take(merge(pending, a.ret, UpdateCap)), TRUE)

\* The critical section of the main loop: the gravity tick when the game is
\* Playing and the drop time has passed (tick), then mem::take of the
\* pending update and the drawing.
render_section(st, b, pending, tick, js) ==
    IF is_playing(st) /\ tick
    THEN Ticking(pending, act(st, b, "SoftDrop", js))
    ELSE Drawing([state |-> st, board |-> b, ret |-> UpdateNone],
                 mem_take(pending), FALSE)

MainCall(op, action, r) ==
    [op |-> op, action |-> action, ret |-> r.ret, called |-> r.called]

\* What one call of input_handler can leave, over the answers of the random
\* source that it reads: two shuffles in start(), one in act().
InputResults(action) ==
    {input_handler(state, board, rng, board_updated, action, js1, js2, js) :
        js1 \in IF is_playing(state) THEN {[i \in 2..QueueCap |-> i]} ELSE GameVectors,
        js2 \in Consulted(<<>>, GameVectors),
        js \in Consulted(IF is_playing(state) THEN state.queue ELSE <<>>,
                         GameVectors)}

\* One input: the button (HardDrop) or a joystick position other than Center.
Input(action) ==
    \E r \in InputResults(action) :
        LET locked == r.ret = UpdateFull
        IN  /\ state' = r.state
            /\ board' = r.board
            /\ board_updated' = r.board_updated
            /\ nlocks' = IF r.called = "start" THEN 0
                         ELSE IF locked THEN nlocks + 1 ELSE nlocks
            /\ peeked' = IF r.called = "start" \/ locked THEN "-" ELSE peeked
            /\ pre' = Snap
            /\ last' = MainCall("input_handler", action, r)
            /\ ninputs' = ninputs + 1
            /\ UNCHANGED <<C, R, rng, tq, hist, display>>

\* One pass of the main loop through its critical section.
Render(tick) ==
    \E r \in {render_section(state, board, board_updated, tick, js) :
                 js \in Consulted(IF is_playing(state) THEN state.queue ELSE <<>>,
                                  GameVectors)} :
        LET locked == r.ret = UpdateFull
        IN  /\ state' = r.state
            /\ board' = r.board
            /\ board_updated' = r.board_updated
            /\ nlocks' = IF locked THEN nlocks + 1 ELSE nlocks
            /\ peeked' = IF r.taken = UpdateFull /\ is_playing(r.state)
                         THEN TetrominoQueue_peek(r.state.queue)
                         ELSE IF locked THEN "-" ELSE peeked
            /\ pre' = Snap
            /\ last' = MainCall("render", tick, r)
            /\ ninputs' = 0
            /\ display' = Draw(display, r.taken, r.state, r.board)
            /\ UNCHANGED <<C, R, rng, tq, hist>>

\* SpecMain stops a game after MainLocks landings and lets MaxInputs inputs
\* in between two passes of the main loop.
MainLocksLeft == is_playing(state) => nlocks < MainLocks

InputsLeft == MainLocksLeft /\ ninputs < MaxInputs

InputMoveLeft == InputsLeft /\ Input("MoveLeft")
InputMoveRight == InputsLeft /\ Input("MoveRight")
InputSoftDrop == InputsLeft /\ Input("SoftDrop")
InputHardDrop == InputsLeft /\ Input("HardDrop")
InputRotate == InputsLeft /\ Input("Rotate")
RenderTick == MainLocksLeft /\ is_playing(state) /\ Render(TRUE)
RenderOnly == Render(FALSE)

\* main() up to its loop: GLOBAL_STATE, then set_rng.
InitMain ==
    /\ C = BoardC
    /\ R = BoardR
    /\ board = BoardNew
    /\ state = StateNew
    /\ rng = "Some"
    /\ nlocks = 0
    /\ pre = [state |-> StateNew, board |-> BoardNew, peeked |-> "-",
              board_updated |-> UpdateFull, display |-> DisplayInit]
    /\ last = Call("set_rng", "-", UpdateNone)
    /\ peeked = "-"
    /\ tq = <<>>
    /\ hist = HistStart("I")
    /\ board_updated = UpdateFull
    /\ ninputs = 0
    /\ display = DisplayInit

NextMain ==
    \/ InputMoveLeft \/ InputMoveRight \/ InputSoftDrop \/ InputHardDrop
    \/ InputRotate \/ RenderTick \/ RenderOnly

SpecMain == InitMain /\ [][NextMain]_vars

\* ------------------------------------------------- vocabulary of the claims
\* The definitions of this section state what the claims speak of, in terms
\* of sets of cells; they do not use the loops above.
Cells == (0..(C - 1)) \X (0..(R - 1))

Occupied(b) == {c \in Cells : b[c[2]][c[1]] = "Occured"}

\* The absolute cells <<x, y>> of a piece of this kind, rotation and offset.
CellsOf(piece, rotation, offset) ==
    {<<get_tetromino_blocks(piece, rotation)[i].x + offset.x,
       get_tetromino_blocks(piece, rotation)[i].y + offset.y>> : i \in 1..4}

\* The cells of the active piece of a Playing state.
PieceCells(st) == CellsOf(st.piece, st.rotation, st.offset)

Shifted(cells, dx, dy) == {<<c[1] + dx, c[2] + dy>> : c \in cells}

\* Every cell at or below row 0 is on the board and Empty.
Fits(b, cells) ==
    \A c \in cells :
        c[2] < 0 \/ (c[1] \in 0..(C - 1) /\ c[2] < R /\ b[c[2]][c[1]] = "Empty")

Marked(b, cells) ==
    [y \in 0..(R - 1) |->
        [x \in 0..(C - 1) |-> IF <<x, y>> \in cells THEN "Occured" ELSE b[y][x]]]

NonFullRows(b) == {y \in 0..(R - 1) : \E x \in 0..(C - 1) : b[y][x] = "Empty"}

\* b without its full rows: the other rows in the same order at the bottom,
\* Empty rows on top.
Compacted(b) ==
    LET keep == NonFullRows(b)
        k == R - Cardinality(keep)
    IN  [y \in 0..(R - 1) |->
            IF y < k
            THEN [x \in 0..(C - 1) |-> "Empty"]
            ELSE b[CHOOSE s \in keep :
                      Cardinality({t \in keep : t > s}) = R - 1 - y]]

Score(st) == IF st.tag = "New" THEN 0 ELSE st.score

ActedWhilePlaying == last.op = "act" /\ pre.state.tag = "Playing"

Landed == ActedWhilePlaying /\ last.ret = UpdateFull

\* Cells that left the board in the last call: C cells for every row removed.
CellsRemoved ==
    Cardinality(Occupied(pre.board)) + (IF Landed THEN 4 ELSE 0)
        - Cardinality(Occupied(board))

\* ------------------------------------------------------------------ claims
\* C1: after an act() made while Playing the score is the score before plus
\* the number of full rows the call's placement removed (C cells leave the
\* board per removed row), plus 0 when no piece landed; the score never
\* decreases across an act().
C1_ScoreAddsRemovedRows ==
    /\ ActedWhilePlaying =>
          /\ CellsRemoved >= 0
          /\ CellsRemoved % C = 0
          /\ Score(state) = pre.state.score + (CellsRemoved \div C)
          /\ ~Landed => (CellsRemoved = 0 /\ board = pre.board)
    /\ last.op = "act" => Score(state) >= Score(pre.state)

\* A landing that removed exactly one row and added exactly 1.
C1_Witness ==
    /\ Landed
    /\ CellsRemoved = C
    /\ Score(state) = pre.state.score + 1

\* C2: act(SoftDrop) while Playing with no room one row down returns Full,
\* puts the 4 cells of the piece on the board (full rows then removed), and
\* if the game is still Playing the new piece has rotation Default, offset
\* (C/2, 0) and the kind peek() gave before the call.
C2_SoftDropLands ==
    (/\ ActedWhilePlaying
     /\ last.action = "SoftDrop"
     /\ ~Fits(pre.board, Shifted(PieceCells(pre.state), 0, 1)))
    => /\ last.ret = UpdateFull
       /\ board = Compacted(Marked(pre.board, PieceCells(pre.state)))
       /\ is_playing(state) =>
             /\ state.rotation = "Default"
             /\ state.offset = Coordination(C \div 2, 0)
             /\ state.piece = pre.state.queue[Len(pre.state.queue)]

\* A SoftDrop that landed a piece off the spawn position and left the game
\* Playing.
C2_Witness ==
    /\ ActedWhilePlaying
    /\ last.action = "SoftDrop"
    /\ ~Fits(pre.board, Shifted(PieceCells(pre.state), 0, 1))
    /\ pre.state.offset # Coordination(C \div 2, 0)
    /\ pre.state.rotation # "Default"
    /\ is_playing(state)

\* C3: the spawn that follows a landing ends in GameOver exactly when the
\* Default shape of the drawn kind does not fit at offset (C/2, 0) on the
\* board left by the landing, and GameOver carries the score held then, rows
\* removed by that landing included; when it fits the state stays Playing
\* with that score.  The spawn of start() is the same on the emptied board
\* with score 0.
C3_SpawnDecidesGameOver ==
    /\ Landed =>
          LET kind == pre.state.queue[Len(pre.state.queue)]
              fits == Fits(board, CellsOf(kind, "Default", Coordination(C \div 2, 0)))
          IN  /\ state.tag = IF fits THEN "Playing" ELSE "GameOver"
              /\ state.score = pre.state.score + (CellsRemoved \div C)
    /\ (last.op = "start" /\ pre.state.tag # "Playing" /\ rng = "Some") =>
          /\ state.tag \in {"Playing", "GameOver"}
          /\ state.score = 0
          /\ is_playing(state) <=>
                \E kind \in Tetromino :
                    Fits(board, CellsOf(kind, "Default", Coordination(C \div 2, 0)))
                    /\ Len(state.queue) = QueueCap - 1
                    /\ \A i \in 1..Len(state.queue) : state.queue[i] # kind

\* A landing that removed a row and whose spawn failed: GameOver carries the
\* point of that row.
C3_Witness ==
    /\ Landed
    /\ state.tag = "GameOver"
    /\ CellsRemoved > 0
    /\ state.score > pre.state.score

\* C4: counted from a fresh init, the draws 7k+1 .. 7k+7 hold every kind
\* exactly once, for every k.
C4_BagIsPermutation ==
    hist.pos = QueueCap => \A kind \in Tetromino : hist.count[kind] = 1

\* The second block of 7 draws is complete.
C4_Witness ==
    /\ hist.pos = QueueCap
    /\ hist.second

\* C5 as stated: every run of 7 consecutive draws, wherever it starts, is a
\* permutation of the 7 kinds; that is, two draws of one kind always have at
\* least 6 draws between them.
C5_AnySevenDraws ==
    hist.between # -1 => hist.between >= QueueCap - 1

\* C5 amended: a run of 7 draws that starts at a bag boundary is a
\* permutation; a run that starts elsewhere can hold a kind twice, but then
\* the two draws are in different bags: a kind never repeats inside the
\* block of 7 it was drawn in.
C5_RepeatsSpanTwoBags ==
    /\ hist.between # -1 => hist.between + 1 >= hist.pos
    /\ hist.pos = QueueCap => Cardinality({k \in Tetromino : hist.count[k] > 0}) = QueueCap

\* A kind drawn twice within 7 consecutive draws.
C5_Witness ==
    /\ hist.between # -1
    /\ hist.between < QueueCap - 1
    /\ hist.second

\* C6: between two successive draws of one kind there are at most 12 draws
\* of other kinds.
C6_GapAtMostTwelve ==
    hist.between <= 2 * (QueueCap - 1)

\* A kind drawn first in one bag and last in the next: 12 draws in between.
C6_Witness ==
    hist.between = 2 * (QueueCap - 1)

\* C7: while Playing the queue holds 1 to 7 pairwise different kinds; peek()
\* changes nothing and returns the kind the next next() returns, that is the
\* kind of the next piece spawned, whatever is called in between.
C7_PeekIsNextDraw ==
    /\ is_playing(state) =>
          /\ Len(state.queue) \in 1..QueueCap
          /\ \A i, j \in 1..Len(state.queue) :
                i # j => state.queue[i] # state.queue[j]
    /\ last.op = "peek" => (state = pre.state /\ board = pre.board)
    /\ (Landed /\ pre.peeked # "-" /\ is_playing(state)) => state.piece = pre.peeked
    /\ (last.op = "act" /\ ~Landed) => peeked = pre.peeked

\* A piece spawned after a peek, by the next() that refilled the queue.
C7_Witness ==
    /\ Landed
    /\ pre.peeked # "-"
    /\ is_playing(state)
    /\ Len(state.queue) = QueueCap

\* C8: start() changes nothing when Playing or when no random source is set;
\* otherwise it empties the board, sets the score to 0 and, on the 10 x 20
\* board, ends Playing with rotation Default and offset (C/2, 0).
C8_Start ==
    last.op = "start" =>
        IF pre.state.tag = "Playing" \/ rng = "None"
        THEN state = pre.state /\ board = pre.board
        ELSE /\ Occupied(board) = {}
             /\ state.tag = "Playing"
             /\ state.score = 0
             /\ state.rotation = "Default"
             /\ state.offset = Coordination(C \div 2, 0)

\* A restart from GameOver, over a board that was not empty.
C8_Witness ==
    /\ last.op = "start"
    /\ pre.state.tag = "GameOver"
    /\ Occupied(pre.board) # {}
    /\ C = TETRIS_WIDTH
    /\ R = TETRIS_HEIGHT

\* C9: act() called in New or GameOver returns None and leaves the state
\* (the GameOver score with it) and the board as they were.
C9_ActOnlyWhilePlaying ==
    (last.op = "act" /\ pre.state.tag # "Playing") =>
        /\ last.ret = UpdateNone
        /\ state = pre.state
        /\ board = pre.board

\* A HardDrop made in GameOver.
C9_Witness ==
    /\ last.op = "act"
    /\ last.action = "HardDrop"
    /\ pre.state.tag = "GameOver"

\* C10: New -> Playing only by start, Playing -> GameOver only by a SoftDrop
\* or HardDrop that lands a piece, GameOver -> Playing only by start; New is
\* never entered again; MoveLeft, MoveRight and Rotate keep the variant; in
\* GameOver every act() keeps GameOver and its score.
C10_Lifecycle ==
    LET from == pre.state.tag
        to == state.tag
    IN  /\ to = "New" => from = "New"
        /\ (from = "New" /\ to # "New") => (to = "Playing" /\ last.op = "start")
        /\ from = "Playing" => to \in {"Playing", "GameOver"}
        /\ (from = "Playing" /\ to = "GameOver") =>
              /\ last.op = "act"
              /\ last.action \in {"SoftDrop", "HardDrop"}
              /\ last.ret = UpdateFull
        /\ (from = "GameOver" /\ to # "GameOver") => (to = "Playing" /\ last.op = "start")
        /\ (from = "GameOver" /\ to = "GameOver") => state.score = pre.state.score
        /\ (from = "GameOver" /\ last.op = "act") => to = "GameOver"
        /\ (last.op = "act" /\ last.action \in {"MoveLeft", "MoveRight", "Rotate"})
              => to = from

\* A game lost and then restarted from GameOver by start().
C10_Witness ==
    /\ last.op = "start"
    /\ pre.state.tag = "GameOver"
    /\ state.tag = "Playing"

\* ---------------------------------------------- vocabulary: moves and turns
Abs(n) == IF n < 0 THEN -n ELSE n

InColumns(cells) == \A c \in cells : c[1] \in 0..(C - 1)

\* The horizontal shift of smallest absolute value that brings every cell
\* into the columns of the board.
Kick(cells) ==
    CHOOSE d \in -4..4 :
        /\ InColumns(Shifted(cells, d, 0))
        /\ \A e \in -4..4 : InColumns(Shifted(cells, e, 0)) => Abs(d) <= Abs(e)

RotationCycle == <<"Default", "Left", "Flipped", "Right">>

Successor(rotation) ==
    RotationCycle[((CHOOSE i \in 1..4 : RotationCycle[i] = rotation) % 4) + 1]

\* Where act(Rotate) wants to put the piece: the next rotation, at the offset
\* shifted by the wall kick of that shape.
TurnedOffset(st) ==
    [st.offset EXCEPT
        !.x = @ + Kick(CellsOf(st.piece, Successor(st.rotation), st.offset))]

TurnedCells(st) == CellsOf(st.piece, Successor(st.rotation), TurnedOffset(st))

\* The cells the last act() asked for.
TargetCells ==
    CASE last.action = "MoveLeft" -> Shifted(PieceCells(pre.state), -1, 0)
      [] last.action = "MoveRight" -> Shifted(PieceCells(pre.state), 1, 0)
      [] last.action = "Rotate" -> TurnedCells(pre.state)
      [] OTHER -> Shifted(PieceCells(pre.state), 0, 1)

Entry(c, cell) == [coord |-> Coordination(c[1], c[2]), cell |-> cell]

\* The entries of the block diff between two sets of cells.
Diff(before, after) ==
    {Entry(c, "Empty") : c \in before \ after}
        \cup {Entry(c, "Occured") : c \in after \ before}

Entries(update) == {update.list[i] : i \in 1..Len(update.list)}

\* C11: a MoveLeft, MoveRight or Rotate made while Playing whose target
\* position fails the collision check returns None and leaves the state
\* (kind, rotation, offset, score, queue) and the board as they were.
C11_BlockedMoveChangesNothing ==
    (/\ ActedWhilePlaying
     /\ last.action \in {"MoveLeft", "MoveRight", "Rotate"}
     /\ ~Fits(pre.board, TargetCells))
    => /\ last.ret = UpdateNone
       /\ state = pre.state
       /\ board = pre.board

\* A MoveLeft made with a block of the piece in column 0.
C11_Witness ==
    /\ ActedWhilePlaying
    /\ last.action = "MoveLeft"
    /\ \E c \in PieceCells(pre.state) : c[1] = 0
    /\ last.ret = UpdateNone

\* C12: a MoveLeft, MoveRight or SoftDrop made while Playing whose target
\* position passes the collision check moves the offset by (-1,0), (+1,0) or
\* (0,+1), keeps kind, rotation, score, queue and board, and returns a Partial
\* that lists once each cell covered before and not after as Empty and each
\* cell covered after and not before as Occured, and nothing else.
C12_MoveReportsDiff ==
    (/\ ActedWhilePlaying
     /\ last.action \in {"MoveLeft", "MoveRight", "SoftDrop"}
     /\ Fits(pre.board, TargetCells))
    => LET dx == CASE last.action = "MoveLeft" -> -1
                   [] last.action = "MoveRight" -> 1
                   [] OTHER -> 0
           dy == IF last.action = "SoftDrop" THEN 1 ELSE 0
       IN  /\ state = [pre.state EXCEPT !.offset =
                          Coordination(pre.state.offset.x + dx,
                                       pre.state.offset.y + dy)]
           /\ board = pre.board
           /\ last.ret.tag = "Partial"
           /\ Entries(last.ret) = Diff(PieceCells(pre.state), PieceCells(state))
           /\ Len(last.ret.list) = Cardinality(Entries(last.ret))

\* A MoveRight that moved a piece lying flat: one cell freed, one covered.
C12_Witness ==
    /\ ActedWhilePlaying
    /\ last.action = "MoveRight"
    /\ state.offset.x = pre.state.offset.x + 1
    /\ last.ret.tag = "Partial"
    /\ Len(last.ret.list) = 2

\* C13: no block of the active piece is ever outside the columns 0..C-1; an
\* act(Rotate) made while Playing commits exactly when the turned shape fits
\* at the wall-kicked offset, and then the rotation is the successor in
\* Default -> Left -> Flipped -> Right -> Default, offset.x is moved by the
\* kick, offset.y is kept and the 4 cells are free cells of the board;
\* otherwise rotation and offset are as they were.
C13_RotateStaysInside ==
    /\ is_playing(state) => InColumns(PieceCells(state))
    /\ (ActedWhilePlaying /\ last.action = "Rotate") =>
          /\ board = pre.board
          /\ IF Fits(pre.board, TurnedCells(pre.state))
             THEN /\ state = [pre.state EXCEPT
                                 !.rotation = Successor(pre.state.rotation),
                                 !.offset = TurnedOffset(pre.state)]
                  /\ state.offset.y = pre.state.offset.y
                  /\ Fits(board, PieceCells(state))
                  /\ InColumns(PieceCells(state))
             ELSE state = pre.state

\* A Rotate committed against a wall: the offset was kicked sideways.
C13_Witness ==
    /\ ActedWhilePlaying
    /\ last.action = "Rotate"
    /\ state.rotation # pre.state.rotation
    /\ state.offset.x # pre.state.offset.x

\* ------------------------------------------------- vocabulary: hard drops
\* act(SoftDrop) issued again and again until one call locks the piece.
RECURSIVE SoftDropsUntilLock(_, _, _)
SoftDropsUntilLock(st, b, js) ==
    LET r == act(st, b, "SoftDrop", js)
    IN  IF r.ret = UpdateFull THEN r ELSE SoftDropsUntilLock(r.state, r.board, js)

\* How far the cells can go straight down through positions that all fit.
FallDepth(b, cells) ==
    CHOOSE d \in 0..R :
        /\ \A k \in 1..d : Fits(b, Shifted(cells, 0, k))
        /\ ~Fits(b, Shifted(cells, 0, d + 1))

FreshO ==
    /\ pre.state.tag = "Playing"
    /\ pre.state.piece = "O"
    /\ pre.state.offset = Coordination(5, 0)
    /\ Occupied(pre.board) = {}
    /\ C = TETRIS_WIDTH
    /\ R = TETRIS_HEIGHT

\* C14: from every Playing state and for every answer of the random source,
\* act(HardDrop) gives the state, the board and the return value (Full) that
\* act(SoftDrop) repeated until one call locks the piece gives; the piece is
\* locked at the lowest position reachable straight down through positions
\* that all fit.  A fresh O on the empty 10 x 20 board is locked into columns
\* 5, 6 of rows 18, 19, the score is kept and the new piece is at (5, 0).
C14_HardDropIsRepeatedSoftDrop ==
    /\ is_playing(state) =>
          \A js \in Consulted(state.queue, GameVectors) :
              act(state, board, "HardDrop", js) = SoftDropsUntilLock(state, board, js)
    /\ (ActedWhilePlaying /\ last.action = "HardDrop") =>
          /\ last.ret = UpdateFull
          /\ board = Compacted(Marked(pre.board,
                        Shifted(PieceCells(pre.state), 0,
                                FallDepth(pre.board, PieceCells(pre.state)))))
          /\ FreshO =>
                /\ Occupied(board) = {5, 6} \X {R - 2, R - 1}
                /\ is_playing(state)
                /\ state.score = pre.state.score
                /\ state.offset = Coordination(5, 0)

\* The HardDrop of a fresh O on the empty 10 x 20 board.
C14_Witness ==
    /\ ActedWhilePlaying
    /\ last.action = "HardDrop"
    /\ FreshO
    /\ Cardinality(Occupied(board)) = 4

\* ----------------------------------------------------- vocabulary: updates
CoordsOf(update) == {update.list[i].coord : i \in 1..Len(update.list)}

\* The cell value a Partial gives for each coordinate it lists.
Mapping(update) ==
    [c \in CoordsOf(update) |->
        update.list[CHOOSE i \in 1..Len(update.list) : update.list[i].coord = c].cell]

UniqueCoords(update) ==
    update.tag = "Partial" => Cardinality(CoordsOf(update)) = Len(update.list)

\* Same variant and, for Partial, the same coordinate-to-cell mapping.
SameUpdate(u, v) ==
    /\ u.tag = v.tag
    /\ u.tag = "Partial" => Mapping(u) = Mapping(v)

\* r is what a.merge(b) must leave in a when the capacity is cap.
IsMerge(r, a, b, cap) ==
    CASE a.tag = "Full" \/ b.tag = "Full" -> r = UpdateFull
      [] a.tag = "None" -> r = b
      [] b.tag = "None" -> r = a
      [] OTHER ->
           LET coords == CoordsOf(a) \cup CoordsOf(b)
           IN  IF Cardinality(coords) <= cap
               THEN /\ r.tag = "Partial"
                    /\ UniqueCoords(r)
                    /\ Mapping(r) =
                          [c \in coords |->
                              IF c \in CoordsOf(b)
                              THEN Mapping(b)[c] ELSE Mapping(a)[c]]
               ELSE r = UpdateFull

\* C15: a.merge(b) with capacity N leaves in a: Full if a or b is Full; b if
\* a is None; a if b is None; for two Partials the Partial that lists once
\* every coordinate of either, with the cell value of b where b lists the
\* coordinate and that of a elsewhere, if these coordinates are at most N,
\* and Full if they are more.
C15_MergeContract ==
    last.op = "merge" =>
        IsMerge(last.ret, last.action[1], last.action[2], MergeCap)

\* Two Partials that list one coordinate with different cell values, merged
\* into a Partial that fills the capacity.
C15_Witness ==
    /\ last.op = "merge"
    /\ last.action[1].tag = "Partial"
    /\ last.action[2].tag = "Partial"
    /\ \E c \in CoordsOf(last.action[1]) \cap CoordsOf(last.action[2]) :
          Mapping(last.action[1])[c] # Mapping(last.action[2])[c]
    /\ last.ret.tag = "Partial"
    /\ Len(last.ret.list) = MergeCap
    /\ Len(last.action[1].list) < MergeCap

\* C16: merging b and then c into a gives the same notification (variant and
\* coordinate-to-cell mapping) as merging into a the result of merging c into
\* b, for notifications of one capacity whose Partials list pairwise
\* different coordinates.
C16_MergeAssociative ==
    last.op = "merge twice" => SameUpdate(last.ret[1], last.ret[2])

\* Three Partials; c overwrites a cell value that b gave, and the result is
\* a Partial.
C16_Witness ==
    /\ last.op = "merge twice"
    /\ \A i \in 1..3 : last.action[i].tag = "Partial"
    /\ \E x \in CoordsOf(last.action[2]) \cap CoordsOf(last.action[3]) :
          /\ Mapping(last.action[2])[x] # Mapping(last.action[3])[x]
          /\ x \notin CoordsOf(last.action[1])
    /\ last.action[1].list # <<>>
    /\ last.ret[1].tag = "Partial"

\* C18: for each of the 7 kinds and 4 rotations get_tetromino_blocks returns
\* 4 pairwise different coordinates with x and y in 0..3, in 0..1 for O.
C18_FourDistinctBlocks ==
    last.op = "get_tetromino_blocks" =>
        LET blocks == last.ret
            side == IF last.action[1] = "O" THEN 1 ELSE 3
        IN  /\ DOMAIN blocks = 1..4
            /\ \A i, j \in 1..4 : i # j => blocks[i] # blocks[j]
            /\ \A i \in 1..4 : blocks[i].x \in 0..side /\ blocks[i].y \in 0..side

\* The shape that reaches the edge of the 4 x 4 frame: I lying flat.
C18_Witness ==
    /\ last.op = "get_tetromino_blocks"
    /\ last.action = <<"I", "Right">>
    /\ \E i \in 1..4 : last.ret[i].x = 3

\* ---------------------------------------------- vocabulary: the main loop
Small(update, n) == update.tag = "Partial" => Len(update.list) <= n

\* What the last pass of the main loop took out of the pending update.
Taken == merge(pre.board_updated, last.ret, UpdateCap)

\* C17: a Partial returned by act() lists at most 8 entries with pairwise
\* different coordinates, and the pending update, which starts as Full, is
\* reset to None by the main loop and is otherwise built by merging the
\* results of act() into it, lists when it is a Partial at most N = 16
\* entries with pairwise different coordinates, also at the point where
\* the main loop takes it.
C17_PartialsSmallAndUnique ==
    /\ UniqueCoords(board_updated)
    /\ Small(board_updated, UpdateCap)
    /\ last.op \in {"input_handler", "render"} =>
          /\ UniqueCoords(last.ret)
          /\ Small(last.ret, 8)
    /\ last.op = "render" => (UniqueCoords(Taken) /\ Small(Taken, UpdateCap))

\* A pending Partial of more than 8 entries, built by more than one merge.
C17_Witness ==
    /\ board_updated.tag = "Partial"
    /\ Len(board_updated.list) > 8
    /\ pre.board_updated.tag = "Partial"
    /\ last.op = "input_handler"
    /\ last.ret.tag = "Partial"

\* C19: after every pass of the main loop through its critical section the
\* pending update is None, whatever it was; once None it stays None until
\* input_handler either calls start (it becomes Full) or merges a result of
\* act() that is not None (it becomes that result).
C19_RenderLeavesNone ==
    /\ last.op = "render" => board_updated = UpdateNone
    /\ (pre.board_updated = UpdateNone /\ board_updated # UpdateNone) =>
          /\ last.op = "input_handler"
          /\ \/ last.called = "start" /\ board_updated = UpdateFull
             \/ /\ last.called = "act"
                /\ last.ret # UpdateNone
                /\ board_updated = last.ret

\* A pass of the main loop whose gravity tick moved the piece and which took
\* a Partial made of an input's result and the tick's.
C19_Witness ==
    /\ last.op = "render"
    /\ pre.board_updated.tag = "Partial"
    /\ last.called = "act"
    /\ last.ret.tag = "Partial"
    /\ Taken.tag = "Partial"
    /\ board_updated = UpdateNone

\* C20: in input_handler, a HardDrop received while not Playing calls start
\* (the board is emptied and a game with score 0 begins) and sets the pending
\* update to Full; every other action received while not Playing leaves
\* state, board and pending update as they were; every action received
\* while Playing goes to act(), and the pending update becomes the merge of
\* the value act() returned into what it was.
C20_InputHandler ==
    last.op = "input_handler" =>
        IF pre.state.tag # "Playing"
        THEN IF last.action = "HardDrop"
             THEN /\ last.called = "start"
                  /\ board_updated = UpdateFull
                  /\ Occupied(board) = {}
                  /\ state.tag \in {"Playing", "GameOver"}
                  /\ Score(state) = 0
             ELSE /\ state = pre.state
                  /\ board = pre.board
                  /\ board_updated = pre.board_updated
        ELSE /\ last.called = "act"
             /\ \E js \in GameVectors :
                   act(pre.state, pre.board, last.action, js) =
                       [state |-> state, board |-> board, ret |-> last.ret]
             /\ IsMerge(board_updated, pre.board_updated, last.ret, UpdateCap)

\* A HardDrop received in GameOver after the main loop had emptied the
\* pending update: a new game and a pending Full.
C20_Witness ==
    /\ last.op = "input_handler"
    /\ last.action = "HardDrop"
    /\ pre.state.tag = "GameOver"
    /\ pre.board_updated = UpdateNone
    /\ is_playing(state)
    /\ board_updated = UpdateFull

\* ---------------------------------------------- vocabulary: Board functions
\* Horizontal shifts wide enough for every offset of BounceOffsets.
Shifts == (-(C + 12))..(C + 12)

Visible(cells) == {c \in cells : c[2] >= 0}

OnBoardAndEmpty(b, c) ==
    c[1] >= 0 /\ c[1] < C /\ c[2] < R /\ b[c[2]][c[1]] = "Empty"

FullRowCount(b) == R - Cardinality(NonFullRows(b))

\* C22: can_move_in returns true exactly when every block whose absolute y
\* is >= 0 has 0 <= x < C, y < R and an Empty target cell; a block whose
\* absolute y is < 0 is not looked at, not even its x.
C22_CanMoveIn ==
    last.op = "can_move_in" =>
        LET b == last.action[1]
            cells == CellsOf(last.action[2], last.action[3], last.action[4])
        IN  last.ret = (\A c \in Visible(cells) : OnBoardAndEmpty(b, c))

\* A call that returned true for a shape with a block above row 0 and
\* outside the columns.
C22_Witness ==
    /\ last.op = "can_move_in"
    /\ last.ret = TRUE
    /\ \E c \in CellsOf(last.action[2], last.action[3], last.action[4]) :
          c[2] < 0 /\ c[1] < 0

\* C23: on a board of width C >= 4, for every shape of the table and every
\* offset, wall_bounce_offset_modifier returns the horizontal shift of
\* smallest absolute value that brings the 4 absolute x into 0..C-1, and 0
\* when they are there already.
C23_WallBounceMinimal ==
    last.op = "wall_bounce_offset_modifier" =>
        LET cells == CellsOf(last.action[1], last.action[2], last.action[3])
            m == last.ret
        IN  /\ InColumns(Shifted(cells, m, 0))
            /\ \A e \in Shifts : InColumns(Shifted(cells, e, 0)) => Abs(m) <= Abs(e)
            /\ InColumns(cells) => m = 0

\* The flat I wholly beyond the right wall of the narrowest board.
C23_Witness ==
    /\ last.op = "wall_bounce_offset_modifier"
    /\ C = 4
    /\ last.action[1] = "I"
    /\ last.action[3].x = C
    /\ last.ret = -4

\* C24: clear_full_lines returns the number k of rows whose cells are all
\* Occured and leaves a board whose top k rows are Empty and whose other R-k
\* rows are the rows of the board that were not full, in their order.
C24_ClearCompacts ==
    last.op = "clear_full_lines" =>
        LET b == last.action[1]
            k == last.ret.removed
        IN  /\ k = FullRowCount(b)
            /\ \A y \in 0..(k - 1) : last.ret.board[y] = RowEmpty
            /\ last.ret.board = Compacted(b)

\* Two full rows removed from between rows that differ.
C24_Witness ==
    /\ last.op = "clear_full_lines"
    /\ last.ret.removed = 2
    /\ last.action[1][0] = RowLeft
    /\ last.action[1][1] = RowFull
    /\ last.action[1][2] = RowGap
    /\ last.action[1][3] = RowFull

\* C25: a second clear_full_lines right after a first returns 0 and leaves
\* the grid as the first left it.
C25_ClearIdempotent ==
    last.op = "clear_full_lines twice" =>
        /\ last.ret[2].removed = 0
        /\ last.ret[2].board = last.ret[1].board

\* A first call that removed two rows and kept rows that are not Empty.
C25_Witness ==
    /\ last.op = "clear_full_lines twice"
    /\ last.ret[1].removed = 2
    /\ Occupied(last.ret[1].board) # {}
    /\ last.ret[2].removed = 0

\* C26: place of a piece that lies on Empty cells of the board returns the
\* number of rows that are all Occured once its 4 cells are marked, and the
\* number of Occured cells afterwards is the number before plus 4 minus C
\* times the value returned.
C26_PlaceCountsRows ==
    last.op = "place" =>
        LET b == last.action[1]
            cells == CellsOf(last.action[2], last.action[3], last.action[4])
            k == last.ret.removed
        IN  /\ k = FullRowCount(Marked(b, cells))
            /\ Cardinality(Occupied(last.ret.board)) =
                  Cardinality(Occupied(b)) + 4 - C * k

\* The upright I put into the gap of four rows: 4 returned.
C26_Witness ==
    /\ last.op = "place"
    /\ last.action[2] = "I"
    /\ last.ret.removed = 4
    /\ Occupied(last.ret.board) = {}

\* C27 as stated: in clear_full_lines the usize new_board_line_index is
\* never decremented below 0, whatever the board holds.
C27_NoUnderflow ==
    last.op = "clear_full_lines" =>
        ToString(last.ret.index) \in {ToString(n) : n \in 0..(R - 1)}

\* ------------------------------------------- vocabulary: the piece in play
OnBoard(c) == c[1] >= 0 /\ c[1] < C /\ c[2] >= 0 /\ c[2] < R

\* The cells the last landing wrote: those of the piece where it came to
\* rest.
PlacedCells ==
    Shifted(PieceCells(pre.state), 0,
            IF last.action = "HardDrop"
            THEN FallDepth(pre.board, PieceCells(pre.state))
            ELSE 0)

\* n calls of act(SoftDrop) in a row, at least one of which returns Full.
RECURSIVE LocksWithin(_, _, _, _)
LocksWithin(st, b, n, js) ==
    /\ n > 0
    /\ \E r \in {act(st, b, "SoftDrop", js)} :
          r.ret = UpdateFull \/ LocksWithin(r.state, r.board, n - 1, js)

C28_NoFullRow ==
    \A y \in 0..(R - 1) : \E x \in 0..(C - 1) : board[y][x] = "Empty"

\* A landing that completed a row: the row is gone and other cells remain.
C28_Witness ==
    /\ Landed
    /\ FullRowCount(Marked(pre.board, PlacedCells)) > 0
    /\ Occupied(board) # {}

\* C29: from every Playing state, for every answer of the random source, of
\* R calls of act(SoftDrop) in a row at least one locks the piece and
\* returns Full.
C29_PieceLocksWithinR ==
    is_playing(state) =>
        \A js \in Consulted(state.queue, GameVectors) :
            LocksWithin(state, board, R, js)

\* A Playing state from which R - 2 SoftDrops all move the piece.
C29_Witness ==
    /\ is_playing(state)
    /\ \E js \in Consulted(state.queue, GameVectors) :
          ~LocksWithin(state, board, R - 2, js)

\* C30: on the 10 x 20 board, when after start() only the gravity tick acts
\* and keeps acting, every game reaches GameOver, whatever the random source
\* answers; the score is 0 throughout, only columns 5 to 8 are covered and
\* every tick made while Playing changes the state.
C30_GravityEndsGame ==
    /\ [](/\ Score(state) = 0
          /\ \A c \in Occupied(board) : c[1] \in 5..8
          /\ NonFullRows(board) = 0..(R - 1)
          /\ is_playing(state) =>
                \A js \in Consulted(state.queue, GameVectors) :
                    act(state, board, "SoftDrop", js).state # state)
    /\ (is_playing(state) ~> state.tag = "GameOver")

\* The gravity tick that ended a game: GameOver with score 0.
C30_Witness ==
    /\ state.tag = "GameOver"
    /\ state.score = 0
    /\ last.op = "act"
    /\ last.action = "SoftDrop"
    /\ pre.state.tag = "Playing"

\* ------------------------------------------------ vocabulary: the picture
\* The cells that are to be on while the game is Playing.
Picture(st, b) == Occupied(b) \cup PieceCells(st)

\* C31: however the calls of input_handler and the passes of the main loop
\* through its critical section interleave, after each pass that ends with
\* the game Playing the board screen is shown and the cells on are the
\* Occured cells of the board and the 4 cells of the active piece; a
\* Partial is only ever drawn over a board screen that showed the game as
\* it was when the Partial began to build up.
C31_PictureMatchesGame ==
    last.op = "render" =>
        /\ is_playing(state) =>
              /\ display.screen = "board"
              /\ display.on = Picture(state, board)
        /\ Taken.tag = "Partial" =>
              /\ is_playing(state)
              /\ pre.display.screen = "board"

\* A pass that drew a Partial built from two inputs and the gravity tick.
C31_Witness ==
    /\ last.op = "render"
    /\ last.called = "act"
    /\ last.ret.tag = "Partial"
    /\ pre.board_updated.tag = "Partial"
    /\ ninputs = 0
    /\ Taken.tag = "Partial"
    /\ Len(Taken.list) > 4
    /\ display.on # pre.display.on
    /\ display.on = Picture(state, board)

====
